---- MODULE Spec2Model ----
(***************************************************************************)
(* qframe: the migration runner (migrate), the database pass-through pipe  *)
(* (DBPassThrough) and the request body accumulator (bodyAsBuffer).        *)
(*                                                                         *)
(* Three state machines share this module; each has its own specification: *)
(*   Spec      the migration runner against one PostgreSQL database        *)
(*   PipeSpec  one DBPassThrough instance and its destination response     *)
(*   BodySpec  one bodyAsBuffer promise and its request events             *)
(*   ClusterSpec  the start-up of the cluster: master, migration, workers  *)
(***************************************************************************)
EXTENDS Integers, Sequences, FiniteSets, TLC

(***************************************************************************)
(* Bounds of the model.                                                    *)
(***************************************************************************)
\* number of entries of the configured migrations list
NumMigrations == 3
\* number of migrate calls in one behaviour (restarts of the cluster master)
MaxCalls == 3

(***************************************************************************)
(* JavaScript values that reach migrate as config.migrationTarget.         *)
(***************************************************************************)
Num(n) == [t |-> "number", n |-> n, s |-> ""]
Str(s) == [t |-> "string", n |-> 0, s |-> s]
Undefined == [t |-> "undefined", n |-> 0, s |-> ""]

IsNum(v) == v.t = "number"
IsStr(v) == v.t = "string"

\* JavaScript truthiness, as used by the || operator
Truthy(v) ==
    CASE v.t = "number" -> v.n # 0
      [] v.t = "string" -> v.s # ""
      [] OTHER -> FALSE

\* a || b
JsOr(a, b) == IF Truthy(a) THEN a ELSE b

(***************************************************************************)
(* The migrations list: an array of {name, up, down}, indexed from 0.      *)
(* The up and down SQL texts are opaque; each is identified by its step.   *)
(***************************************************************************)
MigrationNames == <<"A", "B", "C", "D", "E", "F">>

Migrations ==
    [k \in 0 .. NumMigrations - 1 |->
        [name |-> MigrationNames[k + 1], up |-> <<"up", k>>, down |-> <<"down", k>>]]

Len0(migrations) == Cardinality(DOMAIN migrations)

\* a string that is the name of no migration and does not parse as a number
NoSuchName == "nosuch"

\* the values of config.migrationTarget the model draws from
MigrationTargets ==
    {Undefined}
        \cup {Num(n) : n \in -2 .. NumMigrations}
        \cup {Str(Migrations[k].name) : k \in DOMAIN Migrations}
        \cup {Str(NoSuchName)}

\* a faulty variant of FindIndex: the last step with the name
FindLastIndex(migrations, migrationTarget) ==
    LET hits == {k \in DOMAIN migrations :
                    IsStr(migrationTarget) /\ migrations[k].name = migrationTarget.s}
    IN  IF hits = {} THEN -1
        ELSE CHOOSE k \in hits : \A j \in hits : k >= j

\* migrations.findIndex(m => m.name === migrationTarget)
FindIndex(migrations, migrationTarget) ==
    LET hits == {k \in DOMAIN migrations :
                    IsStr(migrationTarget) /\ migrations[k].name = migrationTarget.s}
    IN  IF hits = {} THEN -1
        ELSE CHOOSE k \in hits : \A j \in hits : k <= j

\* a faulty variant of ResolveTarget: no default, an absent target stays undefined
ResolveTargetNoDefault(migrations, migrationTarget) ==
    LET found == FindIndex(migrations, migrationTarget)
    IN  IF found # -1 THEN Num(found) ELSE migrationTarget

\* a faulty variant of ResolveTarget: -1 is taken for "not found"
ResolveTargetMinusOneIsLast(migrations, migrationTarget) ==
    LET found == FindIndex(migrations, migrationTarget)
    IN  IF found # -1 THEN Num(found)
        ELSE IF migrationTarget = Num(-1) THEN Num(Len0(migrations) - 1)
        ELSE JsOr(migrationTarget, Num(Len0(migrations) - 1))

\* the later form of the same line, which keeps the index 0:
\* ... = migrationTarget === 0 ? migrationTarget : (migrationTarget || migrations.length-1)
ResolveTargetZeroKept(migrations, migrationTarget) ==
    LET found == FindIndex(migrations, migrationTarget)
    IN  IF found # -1 THEN Num(found)
        ELSE IF migrationTarget = Num(0) THEN migrationTarget
        ELSE JsOr(migrationTarget, Num(Len0(migrations) - 1))

\* var targetMigrationIndex = findIndex(...);
\* if (targetMigrationIndex === -1) targetMigrationIndex = migrationTarget || migrations.length-1;
ResolveTarget(migrations, migrationTarget) ==
    LET found == FindIndex(migrations, migrationTarget)
    IN  IF found # -1 THEN Num(found)
        ELSE JsOr(migrationTarget, Num(Len0(migrations) - 1))

\* i > targetMigrationIndex; a non-numeric string converts to NaN, which compares false
JsGt(k, v) == IsNum(v) /\ k > v.n
\* i <= targetMigrationIndex
JsLe(k, v) == IsNum(v) /\ k <= v.n

(***************************************************************************)
(* The database.  A committed state and, inside a transaction, a working   *)
(* copy.  PostgreSQL DDL is transactional, so the tables created by        *)
(* CREATE TABLE IF NOT EXISTS belong to the working copy as well.          *)
(***************************************************************************)
\* client.database: config.pg.database
DbName == "qframe"
\* SQL NULL in the latest_name column
Null == "<NULL>"
NoRow == [db_name |-> "<none>", latest_index |-> -1, latest_name |-> Null]

EmptyDb ==
    [hasMigration |-> FALSE,     \* table migration exists
     hasLog |-> FALSE,           \* table migration_log exists
     migration |-> {},           \* rows of migration
     migration_log |-> <<>>,     \* rows of migration_log, in insertion order
     applied |-> {}]             \* the steps whose up change is in effect

\* the name of another database whose ledger row is in the table
OtherDbName == "qframe_old"

\* a database that holds the ledger row of another name: it was renamed, or
\* created as a copy, after a migrate call under the other name had committed
\* position -1
CopiedDb ==
    [hasMigration |-> TRUE,
     hasLog |-> TRUE,
     migration |-> {[db_name |-> OtherDbName, latest_index |-> -1, latest_name |-> Null]},
     migration_log |-> <<>>,
     applied |-> {}]

\* a statement client.query() sent, or the step that threw
Stmt(q, dir, index) == [q |-> q, dir |-> dir, index |-> index]
NoError == Stmt("", "", -1)

\* the migration runner
VARIABLES
    db,                    \* committed database state
    tx,                    \* working copy of the open transaction
    logSeq,                \* next value of the migration_log id sequence
    pc,                    \* position of the running migrate call, or "idle"
    migrationTarget,       \* argument of the running (or last) call
    targetMigrationIndex,  \* its resolved target
    migrationStatus,       \* the row read or inserted by the call
    i,                     \* loop variable of the down and up loops
    sent,                  \* statements sent to the client by the running (or last) call
    outcome,               \* "none", "running", "ok" (resolved), "failed" (rejected)
    thrown,                \* the error the last call rejected with
    calls,                 \* number of calls started
    pre                    \* committed state when the running (or last) call started

migVars == <<db, tx, logSeq, pc, migrationTarget, targetMigrationIndex,
             migrationStatus, i, sent, outcome, thrown, calls, pre>>

\* the pass-through pipe
VARIABLES
    pipe,        \* the fields of the DBPassThrough instance
    dst,         \* the calls the destination response received, in order
    written,     \* the buffers given to write(), in call order
    lastWrite,   \* the running byte count the last write() reached and whether it flushed
    pipePhase,   \* "open", "ended" (end() returned) or "failed" (the destination has thrown)
    endCalled,   \* end() has been called
    lost         \* the bytes given to a destination call that threw

pipeVars == <<pipe, dst, written, lastWrite, pipePhase, endCalled, lost>>

\* the body accumulator
VARIABLES
    body,       \* the closure of the promise: index, buffer, state of the promise
    maxLen,     \* the maxLen argument
    chunks,     \* the chunks the request emitted, in order
    reqPhase    \* "none" (not called), "open", "ended", "errored", "crashed"

bodyVars == <<body, maxLen, chunks, reqPhase>>

\* the cluster
VARIABLES
    master,      \* position of the master process: "off", "connecting", "migrating", "done"
    migration,   \* the master's migrate call: "none", "running", "committed", "failed"
    workers,     \* the state of every worker forked so far, in fork order
    served,      \* number of requests the workers have answered
    exits,       \* 'exit' events of workers the master has not handled yet
    invoked      \* the callers of migrate, "master" or "worker", in call order

clusterVars == <<master, migration, workers, served, exits, invoked>>

\* serveDirectory: one path of the served directory
VARIABLES
    file,        \* the file on disk: 0 when there is none, else the number of the write that made its content
    changes,     \* changes of the file so far; each one makes the watcher emit an event
    handled,     \* events the 'all' handler has run for, in the order of the changes
    reads,       \* the fs.readFile calls in flight: the event that started each and what it has read
    cache        \* the entry of the path in cache

cacheVars == <<file, changes, handled, reads, cache>>

\* one endpoint behind guardPostWithSession, one request at a time
VARIABLES
    req,         \* the request: endpoint, method, session and csrf headers, body
    guardPc,     \* position of the handler of the request
    session,     \* the row sessionGet returned
    message,     \* the message of the error thrown, "" when none
    statusCode,  \* the status of the response, 0 while there is none
    mutated,     \* the endpoint has issued its INSERT, UPDATE or DELETE
    guarded      \* requests so far

guardVars == <<req, guardPc, session, message, statusCode, mutated, guarded>>

webVars == <<cacheVars, guardVars>>

InitMig ==
    /\ db \in {EmptyDb, CopiedDb}
    /\ tx = db
    /\ logSeq = 1
    /\ pc = "idle"
    /\ migrationTarget = Undefined
    /\ targetMigrationIndex = Undefined
    /\ migrationStatus = NoRow
    /\ i = 0
    /\ sent = <<>>
    /\ outcome = "none"
    /\ thrown = NoError
    /\ calls = 0
    /\ pre = db

(***************************************************************************)
(* Effects of the statements on the working copy.                          *)
(***************************************************************************)
\* CREATE TABLE IF NOT EXISTS migration (...)
CreateMigrationTable(d) == [d EXCEPT !.hasMigration = TRUE]
\* CREATE TABLE IF NOT EXISTS migration_log (...)
CreateLogTable(d) == [d EXCEPT !.hasLog = TRUE]

\* SELECT * FROM migration WHERE db_name = $1
SelectStatus(d, name) == {r \in d.migration : r.db_name = name}

\* a faulty variant of NewStatusRow: the new row starts at step 0
NewStatusRowAtZero(name) == [db_name |-> name, latest_index |-> 0, latest_name |-> Null]

\* INSERT INTO migration (db_name) VALUES ($1) RETURNING *
NewStatusRow(name) == [db_name |-> name, latest_index |-> -1, latest_name |-> Null]
InsertStatus(d, name) == [d EXCEPT !.migration = @ \cup {NewStatusRow(name)}]

\* client.query(migrations[i].down) / client.query(migrations[i].up)
RunDown(d, k) == [d EXCEPT !.applied = @ \ {k}]
RunUp(d, k) == [d EXCEPT !.applied = @ \cup {k}]

\* a faulty variant of LogRow: every record is written with direction 'up'
LogRowAlwaysUp(id, name, step, dir, k) ==
    [id |-> id, db_name |-> name, name |-> step.name, direction |-> "up",
     query |-> IF dir = "down" THEN step.down ELSE step.up, index |-> k]

\* INSERT INTO migration_log (db_name, name, direction, query, index) VALUES (...)
LogRow(id, name, step, dir, k) ==
    [id |-> id, db_name |-> name, name |-> step.name, direction |-> dir,
     query |-> IF dir = "down" THEN step.down ELSE step.up, index |-> k]

\* a faulty variant of InsertLog: the new record is put before the others
InsertLogFirst(d, row) == [d EXCEPT !.migration_log = <<row>> \o @]

InsertLog(d, row) == [d EXCEPT !.migration_log = Append(@, row)]

\* (migrations[targetMigrationIndex] || {}).name; undefined is sent as NULL
TargetName(migrations, v) ==
    IF IsNum(v) /\ v.n \in DOMAIN migrations THEN migrations[v.n].name ELSE Null

\* a faulty variant of UpdateStatus: the index after the target is written
UpdateStatusNextIndex(d, index, name) ==
    [d EXCEPT !.migration =
        {[r EXCEPT !.latest_index = index + 1, !.latest_name = name] : r \in @}]

\* UPDATE migration SET latest_index = $1, latest_name = $2   (no WHERE clause)
UpdateStatus(d, index, name) ==
    [d EXCEPT !.migration =
        {[r EXCEPT !.latest_index = index, !.latest_name = name] : r \in @}]

\* a faulty variant of AfterRollback: the work of the failed transaction stays
AfterRollbackKeepsWork(committed, working) == working

\* ROLLBACK: the working copy is discarded
AfterRollback(committed, working) == committed

\* a faulty variant of AfterCommit: nothing is made durable
AfterCommitLosesWork(committed, working) == committed

\* COMMIT: the working copy becomes the committed state
AfterCommit(committed, working) == working

(***************************************************************************)
(* migrate(migrations, migrationTarget), one action per await.             *)
(***************************************************************************)
\* a faulty variant of Throw: the error is recorded and the call goes on to COMMIT
ThrowSwallowed(stmt) ==
    /\ pc' = "commit"
    /\ thrown' = stmt

\* a statement that the database rejects: control goes to the catch block
Throw(stmt) ==
    /\ pc' = "rollback"
    /\ thrown' = stmt

\* the call: the target is resolved before the first await
Call(target) ==
    /\ pc = "idle"
    /\ calls < MaxCalls
    /\ calls' = calls + 1
    /\ migrationTarget' = target
    /\ targetMigrationIndex' = ResolveTarget(Migrations, target)
    /\ migrationStatus' = NoRow
    /\ i' = 0
    /\ sent' = <<>>
    /\ outcome' = "running"
    /\ thrown' = NoError
    /\ pre' = db
    /\ pc' = "connect"
    /\ UNCHANGED <<db, tx, logSeq>>
    /\ UNCHANGED <<pipeVars, bodyVars, clusterVars, webVars>>

\* const client = await DB.connect();   (outside the try block)
Connect ==
    /\ pc = "connect"
    /\ \/ /\ pc' = "begin"
          /\ UNCHANGED <<outcome, thrown>>
       \/ /\ pc' = "idle"
          /\ outcome' = "failed"
          /\ thrown' = Stmt("connect", "", -1)
    /\ UNCHANGED <<db, tx, logSeq, migrationTarget, targetMigrationIndex,
                   migrationStatus, i, sent, calls, pre>>
    /\ UNCHANGED <<pipeVars, bodyVars, clusterVars, webVars>>

\* await client.query('BEGIN');
Begin ==
    /\ pc = "begin"
    /\ sent' = Append(sent, Stmt("BEGIN", "", -1))
    /\ \/ /\ tx' = db
          /\ pc' = "create_migration"
          /\ UNCHANGED thrown
       \/ /\ Throw(Stmt("BEGIN", "", -1))
          /\ UNCHANGED tx
    /\ UNCHANGED <<db, logSeq, migrationTarget, targetMigrationIndex,
                   migrationStatus, i, outcome, calls, pre>>
    /\ UNCHANGED <<pipeVars, bodyVars, clusterVars, webVars>>

CreateMigration ==
    /\ pc = "create_migration"
    /\ sent' = Append(sent, Stmt("CREATE migration", "", -1))
    /\ \/ /\ tx' = CreateMigrationTable(tx)
          /\ pc' = "create_log"
          /\ UNCHANGED thrown
       \/ /\ Throw(Stmt("CREATE migration", "", -1))
          /\ UNCHANGED tx
    /\ UNCHANGED <<db, logSeq, migrationTarget, targetMigrationIndex,
                   migrationStatus, i, outcome, calls, pre>>
    /\ UNCHANGED <<pipeVars, bodyVars, clusterVars, webVars>>

CreateLog ==
    /\ pc = "create_log"
    /\ sent' = Append(sent, Stmt("CREATE migration_log", "", -1))
    /\ \/ /\ tx' = CreateLogTable(tx)
          /\ pc' = "select"
          /\ UNCHANGED thrown
       \/ /\ Throw(Stmt("CREATE migration_log", "", -1))
          /\ UNCHANGED tx
    /\ UNCHANGED <<db, logSeq, migrationTarget, targetMigrationIndex,
                   migrationStatus, i, outcome, calls, pre>>
    /\ UNCHANGED <<pipeVars, bodyVars, clusterVars, webVars>>

\* var { rows: [migrationStatus] } = await client.query('SELECT ...')
Select ==
    /\ pc = "select"
    /\ sent' = Append(sent, Stmt("SELECT", "", -1))
    /\ \/ /\ IF SelectStatus(tx, DbName) = {}
             THEN /\ pc' = "insert"
                  /\ UNCHANGED <<migrationStatus, i>>
             ELSE /\ migrationStatus' = (CHOOSE r \in SelectStatus(tx, DbName) : TRUE)
                  /\ i' = migrationStatus'.latest_index
                  /\ pc' = "down_loop"
          /\ UNCHANGED thrown
       \/ /\ Throw(Stmt("SELECT", "", -1))
          /\ UNCHANGED <<migrationStatus, i>>
    /\ UNCHANGED <<db, tx, logSeq, migrationTarget, targetMigrationIndex,
                   outcome, calls, pre>>
    /\ UNCHANGED <<pipeVars, bodyVars, clusterVars, webVars>>

\* if (!migrationStatus) var { rows: [migrationStatus] } = await client.query("INSERT ...")
\* assert(migrationStatus, ...) holds of the returned row
Insert ==
    /\ pc = "insert"
    /\ sent' = Append(sent, Stmt("INSERT migration", "", -1))
    /\ \/ /\ tx' = InsertStatus(tx, DbName)
          /\ migrationStatus' = NewStatusRow(DbName)
          /\ i' = migrationStatus'.latest_index
          /\ pc' = "down_loop"
          /\ UNCHANGED thrown
       \/ /\ Throw(Stmt("INSERT migration", "", -1))
          /\ UNCHANGED <<tx, migrationStatus, i>>
    /\ UNCHANGED <<db, logSeq, migrationTarget, targetMigrationIndex,
                   outcome, calls, pre>>
    /\ UNCHANGED <<pipeVars, bodyVars, clusterVars, webVars>>

\* for (let i = migrationStatus.latest_index; i > targetMigrationIndex; i--)
\* the loop test, and the read of migrations[i].down, which throws a
\* TypeError when migrations[i] is undefined
DownLoop ==
    /\ pc = "down_loop"
    /\ IF JsGt(i, targetMigrationIndex)
       THEN IF i \in DOMAIN Migrations
            THEN /\ pc' = "down_query"
                 /\ UNCHANGED <<i, thrown>>
            ELSE /\ Throw(Stmt("TypeError", "down", i))
                 /\ UNCHANGED i
       ELSE /\ i' = migrationStatus.latest_index + 1
            /\ pc' = "up_loop"
            /\ UNCHANGED thrown
    /\ UNCHANGED <<db, tx, logSeq, migrationTarget, targetMigrationIndex,
                   migrationStatus, sent, outcome, calls, pre>>
    /\ UNCHANGED <<pipeVars, bodyVars, clusterVars, webVars>>

\* await client.query(migrations[i].down);
DownQuery ==
    /\ pc = "down_query"
    /\ sent' = Append(sent, Stmt("step", "down", i))
    /\ \/ /\ tx' = RunDown(tx, i)
          /\ pc' = "down_log"
          /\ UNCHANGED thrown
       \/ /\ Throw(Stmt("step", "down", i))
          /\ UNCHANGED tx
    /\ UNCHANGED <<db, logSeq, migrationTarget, targetMigrationIndex,
                   migrationStatus, i, outcome, calls, pre>>
    /\ UNCHANGED <<pipeVars, bodyVars, clusterVars, webVars>>

\* await client.query('INSERT INTO migration_log ...', [..., 'down', ..., i]);  i--
DownLog ==
    /\ pc = "down_log"
    /\ sent' = Append(sent, Stmt("log", "down", i))
    /\ \/ /\ tx' = InsertLog(tx, LogRow(logSeq, DbName, Migrations[i], "down", i))
          /\ logSeq' = logSeq + 1
          /\ i' = i - 1
          /\ pc' = "down_loop"
          /\ UNCHANGED thrown
       \/ /\ Throw(Stmt("log", "down", i))
          /\ UNCHANGED <<tx, logSeq, i>>
    /\ UNCHANGED <<db, migrationTarget, targetMigrationIndex,
                   migrationStatus, outcome, calls, pre>>
    /\ UNCHANGED <<pipeVars, bodyVars, clusterVars, webVars>>

\* for (let i = migrationStatus.latest_index+1; i <= targetMigrationIndex; i++)
UpLoop ==
    /\ pc = "up_loop"
    /\ IF JsLe(i, targetMigrationIndex)
       THEN IF i \in DOMAIN Migrations
            THEN /\ pc' = "up_query"
                 /\ UNCHANGED thrown
            ELSE Throw(Stmt("TypeError", "up", i))
       ELSE /\ pc' = "update"
            /\ UNCHANGED thrown
    /\ UNCHANGED <<db, tx, logSeq, migrationTarget, targetMigrationIndex,
                   migrationStatus, i, sent, outcome, calls, pre>>
    /\ UNCHANGED <<pipeVars, bodyVars, clusterVars, webVars>>

\* await client.query(migrations[i].up);
UpQuery ==
    /\ pc = "up_query"
    /\ sent' = Append(sent, Stmt("step", "up", i))
    /\ \/ /\ tx' = RunUp(tx, i)
          /\ pc' = "up_log"
          /\ UNCHANGED thrown
       \/ /\ Throw(Stmt("step", "up", i))
          /\ UNCHANGED tx
    /\ UNCHANGED <<db, logSeq, migrationTarget, targetMigrationIndex,
                   migrationStatus, i, outcome, calls, pre>>
    /\ UNCHANGED <<pipeVars, bodyVars, clusterVars, webVars>>

\* await client.query('INSERT INTO migration_log ...', [..., 'up', ..., i]);  i++
UpLog ==
    /\ pc = "up_log"
    /\ sent' = Append(sent, Stmt("log", "up", i))
    /\ \/ /\ tx' = InsertLog(tx, LogRow(logSeq, DbName, Migrations[i], "up", i))
          /\ logSeq' = logSeq + 1
          /\ i' = i + 1
          /\ pc' = "up_loop"
          /\ UNCHANGED thrown
       \/ /\ Throw(Stmt("log", "up", i))
          /\ UNCHANGED <<tx, logSeq, i>>
    /\ UNCHANGED <<db, migrationTarget, targetMigrationIndex,
                   migrationStatus, outcome, calls, pre>>
    /\ UNCHANGED <<pipeVars, bodyVars, clusterVars, webVars>>

\* await client.query('UPDATE migration SET latest_index = $1, latest_name = $2', [...]);
\* a target that is not a number is rejected by the INT column
Update ==
    /\ pc = "update"
    /\ sent' = Append(sent, Stmt("UPDATE", "", -1))
    /\ \/ /\ IsNum(targetMigrationIndex)
          /\ tx' = UpdateStatus(tx, targetMigrationIndex.n,
                                TargetName(Migrations, targetMigrationIndex))
          /\ pc' = "commit"
          /\ UNCHANGED thrown
       \/ /\ Throw(Stmt("UPDATE", "", -1))
          /\ UNCHANGED tx
    /\ UNCHANGED <<db, logSeq, migrationTarget, targetMigrationIndex,
                   migrationStatus, i, outcome, calls, pre>>
    /\ UNCHANGED <<pipeVars, bodyVars, clusterVars, webVars>>

\* await client.query('COMMIT');  then finally { client.release() }
Commit ==
    /\ pc = "commit"
    /\ sent' = Append(sent, Stmt("COMMIT", "", -1))
    /\ \/ /\ db' = AfterCommit(db, tx)
          /\ tx' = db'
          /\ pc' = "idle"
          /\ outcome' = "ok"
          /\ UNCHANGED thrown
       \/ /\ Throw(Stmt("COMMIT", "", -1))
          /\ UNCHANGED <<db, tx, outcome>>
    /\ UNCHANGED <<logSeq, migrationTarget, targetMigrationIndex,
                   migrationStatus, i, calls, pre>>
    /\ UNCHANGED <<pipeVars, bodyVars, clusterVars, webVars>>

\* catch (err) { await client.query('ROLLBACK'); throw err; } finally { client.release() }
\* The id sequence of migration_log is not transactional, but it is dropped
\* with the table when the table was created by the failed transaction.
\* If ROLLBACK itself is rejected, its error replaces err and the server
\* aborts the transaction when the connection goes away.
Rollback ==
    /\ pc = "rollback"
    /\ sent' = Append(sent, Stmt("ROLLBACK", "", -1))
    /\ db' = AfterRollback(db, tx)
    /\ tx' = db'
    /\ logSeq' = IF db'.hasLog THEN logSeq ELSE 1
    /\ pc' = "idle"
    /\ outcome' = "failed"
    /\ \/ UNCHANGED thrown
       \/ thrown' = Stmt("ROLLBACK", "", -1)
    /\ UNCHANGED <<migrationTarget, targetMigrationIndex,
                   migrationStatus, i, calls, pre>>
    /\ UNCHANGED <<pipeVars, bodyVars, clusterVars, webVars>>

MigNext ==
    \/ \E target \in MigrationTargets : Call(target)
    \/ Connect
    \/ Begin
    \/ CreateMigration
    \/ CreateLog
    \/ Select
    \/ Insert
    \/ DownLoop
    \/ DownQuery
    \/ DownLog
    \/ UpLoop
    \/ UpQuery
    \/ UpLog
    \/ Update
    \/ Commit
    \/ Rollback

(***************************************************************************)
(* Readings of the database and of a call's statements, for the properties.*)
(***************************************************************************)
\* the ledger position of the target: -1 while the target has no row
LatestIndex(d) ==
    IF SelectStatus(d, DbName) = {} THEN -1
    ELSE (CHOOSE r \in SelectStatus(d, DbName) : TRUE).latest_index

LatestName(d) ==
    IF SelectStatus(d, DbName) = {} THEN Null
    ELSE (CHOOSE r \in SelectStatus(d, DbName) : TRUE).latest_name

\* the committed audit records of the target with the given direction
LogCount(d, dir) ==
    Cardinality({j \in 1 .. Len(d.migration_log) :
                    /\ d.migration_log[j].db_name = DbName
                    /\ d.migration_log[j].direction = dir})

IsStepOrLog(stmt) == stmt.q \in {"step", "log"}
\* the up/down changes and audit inserts the call sent, in order
StepStmts == SelectSeq(sent, IsStepOrLog)

\* the audit records the last call added to the committed log
NewLogRows == SubSeq(db.migration_log, Len(pre.migration_log) + 1, Len(db.migration_log))

\* up c+1, log c+1, ..., up t, log t
ForwardStmts(c, t) ==
    [j \in 1 .. 2 * (t - c) |->
        IF j % 2 = 1 THEN Stmt("step", "up", c + (j + 1) \div 2)
        ELSE Stmt("log", "up", c + j \div 2)]

\* down c, log c, ..., down t+1, log t+1
BackwardStmts(c, t) ==
    [j \in 1 .. 2 * (c - t) |->
        IF j % 2 = 1 THEN Stmt("step", "down", c - (j - 1) \div 2)
        ELSE Stmt("log", "down", c + 1 - j \div 2)]

\* the audit rows of the steps from..to walked in direction dir, ids aside
ExpectedRows(from, to, dir) ==
    [j \in 1 .. (IF dir = "up" THEN to - from ELSE from - to) + 1 |->
        LET k == IF dir = "up" THEN from + j - 1 ELSE from - j + 1
        IN  [db_name |-> DbName, name |-> Migrations[k].name, direction |-> dir,
             query |-> IF dir = "up" THEN Migrations[k].up ELSE Migrations[k].down,
             index |-> k]]

WithoutId(row) ==
    [db_name |-> row.db_name, name |-> row.name, direction |-> row.direction,
     query |-> row.query, index |-> row.index]

RowsWithoutIds(rows) == [j \in 1 .. Len(rows) |-> WithoutId(rows[j])]

\* the last call has returned
Returned == pc = "idle" /\ outcome \in {"ok", "failed"}
\* the last call was made with a number in [-1, N-1] as its target
NumericTargetInRange ==
    /\ IsNum(migrationTarget)
    /\ migrationTarget.n \in -1 .. NumMigrations - 1
\* the statement whose rejection sent the last call to its catch block
FailedStmt ==
    IF outcome = "failed" /\ Len(sent) >= 2 /\ sent[Len(sent)].q = "ROLLBACK"
    THEN sent[Len(sent) - 1]
    ELSE NoError

(***************************************************************************)
(* C1  Atomicity on induced failure.  When the up change of a step k fails *)
(* during a forward migration from the committed position c to a target    *)
(* t > c (k in c+1..t), then after the call the committed database is the  *)
(* one from before the call: the ledger reports latest_index = c and the   *)
(* earlier latest_name, and no audit record of the call (for the steps     *)
(* c+1..k-1, k or later) is committed.                                     *)
(***************************************************************************)
C1_AtomicOnUpFailure ==
    (/\ Returned
     /\ outcome = "failed"
     /\ FailedStmt.q = "step"
     /\ FailedStmt.dir = "up")
        => /\ db = pre
           /\ LatestIndex(db) = LatestIndex(pre)
           /\ LatestName(db) = LatestName(pre)
           /\ db.migration_log = pre.migration_log

\* a call from position 0 to target 2 whose second up change (step 2) failed,
\* after step 1 and its audit record were written inside the transaction
C1_Witness ==
    /\ Returned
    /\ outcome = "failed"
    /\ FailedStmt = Stmt("step", "up", 2)
    /\ LatestIndex(pre) = 0
    /\ targetMigrationIndex = Num(2)
    /\ Stmt("log", "up", 1) \in {sent[j] : j \in 1 .. Len(sent)}

(***************************************************************************)
(* C2  After every successful migrate call whose target is a number t in   *)
(* [-1, N-1], the committed ledger row of the target has latest_index = t  *)
(* and latest_name = the name of step t, or NULL when t = -1.              *)
(***************************************************************************)
C2_LedgerAtTarget ==
    (Returned /\ outcome = "ok" /\ NumericTargetInRange)
        => /\ SelectStatus(db, DbName) # {}
           /\ LatestIndex(db) = migrationTarget.n
           /\ LatestName(db) =
                IF migrationTarget.n = -1 THEN Null
                ELSE Migrations[migrationTarget.n].name

(***************************************************************************)
(* C3  Ledger/audit consistency.  In every committed state, the number of  *)
(* committed audit records of the target with direction up minus the       *)
(* number with direction down equals the ledger's latest_index + 1 (both   *)
(* are 0 while the target is uninitialized).                               *)
(***************************************************************************)
C3_LedgerMatchesLog ==
    LogCount(db, "up") - LogCount(db, "down") = LatestIndex(db) + 1

\* a committed state after forward and backward migrations and a failed call
C3_Witness ==
    /\ Returned
    /\ outcome = "failed"
    /\ LatestIndex(db) = 0
    /\ LogCount(db, "up") = 3
    /\ LogCount(db, "down") = 2

(***************************************************************************)
(* C4  Idempotent no-op.  A migrate call whose numeric target equals the   *)
(* committed position executes no up or down change, appends no audit      *)
(* record and leaves latest_index and latest_name unchanged, and it does   *)
(* not fail unless the database rejects one of its statements.             *)
(***************************************************************************)
C4_NoOpAtTarget ==
    (/\ Returned
     /\ NumericTargetInRange
     /\ LatestIndex(pre) = migrationTarget.n)
        => /\ StepStmts = <<>>
           /\ thrown.q # "TypeError"
           /\ db.migration_log = pre.migration_log
           /\ LatestIndex(db) = LatestIndex(pre)
           /\ LatestName(db) = LatestName(pre)

(***************************************************************************)
(* C5  Forward migration.  A successful migrate call from the committed    *)
(* position c to a numeric target t, c < t <= N-1, executes the up change  *)
(* of exactly the steps c+1..t, once each and in ascending order, inserts  *)
(* one audit record with direction up, the step's name and index right     *)
(* after each, and executes no down change.                                *)
(***************************************************************************)
C5_ForwardSteps ==
    (/\ Returned
     /\ outcome = "ok"
     /\ NumericTargetInRange
     /\ LatestIndex(pre) < migrationTarget.n)
        => /\ StepStmts = ForwardStmts(LatestIndex(pre), migrationTarget.n)
           /\ RowsWithoutIds(NewLogRows) =
                ExpectedRows(LatestIndex(pre) + 1, migrationTarget.n, "up")

(***************************************************************************)
(* C6  Backward migration.  A successful migrate call from the committed   *)
(* position c to a numeric target t, -1 <= t < c, executes the down change *)
(* of exactly the steps c, c-1, ..., t+1, once each and in descending      *)
(* order, inserts one audit record with direction down right after each,   *)
(* and executes no up change.                                              *)
(***************************************************************************)
C6_BackwardSteps ==
    (/\ Returned
     /\ outcome = "ok"
     /\ NumericTargetInRange
     /\ migrationTarget.n < LatestIndex(pre))
        => /\ StepStmts = BackwardStmts(LatestIndex(pre), migrationTarget.n)
           /\ RowsWithoutIds(NewLogRows) =
                ExpectedRows(LatestIndex(pre), migrationTarget.n + 1, "down")

(***************************************************************************)
(* Target resolution.                                                      *)
(***************************************************************************)
\* a migrations list with the given names (names may repeat in a list that
\* config.migrations extends)
Named(names) ==
    [k \in DOMAIN names |->
        [name |-> names[k], up |-> <<"up", k>>, down |-> <<"down", k>>]]

\* the lists of NumMigrations steps over two names
NamedLists == {Named(names) : names \in [0 .. NumMigrations - 1 -> {"A", "B"}]}

\* the index of the first step of the list with the name
FirstNamed(migrations, name) ==
    CHOOSE k \in DOMAIN migrations :
        /\ migrations[k].name = name
        /\ \A j \in DOMAIN migrations : migrations[j].name = name => k <= j

\* a call has been made with the name of a configured step as its target
TargetIsStepName ==
    /\ calls > 0
    /\ IsStr(migrationTarget)
    /\ \E k \in DOMAIN Migrations : Migrations[k].name = migrationTarget.s

(***************************************************************************)
(* C12  Target by name.  When the migration target is a string equal to    *)
(* the name of a step of the configured sequence, the resolved target      *)
(* position is the index of that step; in a sequence where names repeat it *)
(* is the index of the first step with the name.                           *)
(***************************************************************************)
C12_TargetByName ==
    /\ TargetIsStepName
          => targetMigrationIndex = Num(FirstNamed(Migrations, migrationTarget.s))
    /\ \A migrations \in NamedLists : \A k \in DOMAIN migrations :
          ResolveTarget(migrations, Str(migrations[k].name))
              = Num(FirstNamed(migrations, migrations[k].name))

\* migrate(migrations, 'B') from a fresh database has committed position 1
C12_Witness ==
    /\ Returned
    /\ outcome = "ok"
    /\ migrationTarget = Str("B")
    /\ targetMigrationIndex = Num(1)
    /\ LatestIndex(db) = 1

(***************************************************************************)
(* C13  Numeric target.  When the migration target is a number n in        *)
(* [0, N-1], n = 0 included, the resolved target position is exactly n.    *)
(***************************************************************************)
C13_NumericTargetKept ==
    (/\ calls > 0
     /\ IsNum(migrationTarget)
     /\ migrationTarget.n \in 0 .. NumMigrations - 1)
        => targetMigrationIndex = migrationTarget

(***************************************************************************)
(* C14  Absent target.  When the migration target is undefined, the        *)
(* resolved target position is N-1, and a successful call applies every    *)
(* step that was not applied: it executes the up changes of the steps      *)
(* after the committed position up to N-1 and commits latest_index = N-1.  *)
(***************************************************************************)
C14_AbsentTargetIsLast ==
    (calls > 0 /\ migrationTarget = Undefined)
        => /\ targetMigrationIndex = Num(NumMigrations - 1)
           /\ (Returned /\ outcome = "ok")
                 => /\ StepStmts = ForwardStmts(LatestIndex(pre), NumMigrations - 1)
                    /\ LatestIndex(db) = NumMigrations - 1
                    /\ LatestName(db) = Migrations[NumMigrations - 1].name
                    /\ db.applied = DOMAIN Migrations

\* migrate(migrations) on a fresh database has applied all the steps
C14_Witness ==
    /\ Returned
    /\ outcome = "ok"
    /\ migrationTarget = Undefined
    /\ LatestIndex(pre) = -1
    /\ LatestIndex(db) = NumMigrations - 1
    /\ Len(StepStmts) = 2 * NumMigrations

(***************************************************************************)
(* C15  Unresolvable target.  When the migration target is a string that   *)
(* is the name of no step and is not a number, the resolved target         *)
(* position is N-1 and the call applies everything: unless the database    *)
(* rejects a statement of its own accord, it commits latest_index = N-1.   *)
(***************************************************************************)
C15_UnknownNameIsLast ==
    (/\ calls > 0
     /\ IsStr(migrationTarget)
     /\ ~TargetIsStepName)
        => /\ targetMigrationIndex = Num(NumMigrations - 1)
           /\ (Returned /\ outcome = "ok")
                 => /\ LatestIndex(db) = NumMigrations - 1
                    /\ db.applied = DOMAIN Migrations

(***************************************************************************)
(* C16  Target -1 is a legal target, distinct from a name that was not     *)
(* found: it resolves to -1, and from a committed position c >= 0 a        *)
(* successful migrate call with target -1 executes the down changes of the *)
(* steps c, ..., 0 in descending order (an audit record after each), no up *)
(* change, and commits latest_index = -1 with latest_name = NULL.          *)
(***************************************************************************)
C16_MinusOneRollsBackAll ==
    (calls > 0 /\ migrationTarget = Num(-1))
        => /\ targetMigrationIndex = Num(-1)
           /\ (Returned /\ outcome = "ok" /\ LatestIndex(pre) >= 0)
                 => /\ StepStmts = BackwardStmts(LatestIndex(pre), -1)
                    /\ RowsWithoutIds(NewLogRows) = ExpectedRows(LatestIndex(pre), 0, "down")
                    /\ SelectStatus(db, DbName) # {}
                    /\ LatestIndex(db) = -1
                    /\ LatestName(db) = Null
                    /\ db.applied = {}

\* migrate(migrations, -1) from position 2 has rolled back the steps 2, 1, 0
C16_Witness ==
    /\ Returned
    /\ outcome = "ok"
    /\ migrationTarget = Num(-1)
    /\ LatestIndex(pre) = 2
    /\ Len(StepStmts) = 6
    /\ LatestIndex(db) = -1

\* no statement occurs twice among the statements of the call
NoStatementTwice ==
    \A j, k \in 1 .. Len(sent) : sent[j] = sent[k] => j = k

RollbackStmt == Stmt("ROLLBACK", "", -1)

(***************************************************************************)
(* C18  Failure handling.  If a statement after BEGIN fails (the creation  *)
(* of the ledger or audit table, the ledger read or insert, an up or down  *)
(* change, an audit insert, the ledger update, or COMMIT), the next thing  *)
(* migrate does is to issue ROLLBACK: the failing statement is the last    *)
(* one sent before it, no statement is sent after it, no statement of the  *)
(* call is sent twice, and the call fails to its caller.                   *)
(***************************************************************************)
C18_FailureRollsBack ==
    /\ []((outcome = "running" /\ thrown # NoError)
            => /\ pc = "rollback"
               /\ thrown.q # "TypeError" => sent[Len(sent)] = thrown)
    /\ [][pc = "rollback"
            => /\ sent' = Append(sent, RollbackStmt)
               /\ pc' = "idle"
               /\ outcome' = "failed"]_migVars
    /\ []((Returned /\ outcome = "failed" /\ sent # <<>>)
            => /\ sent[Len(sent)] = RollbackStmt
               /\ NoStatementTwice)
    /\ []((Returned /\ outcome = "ok") => RollbackStmt \notin {sent[j] : j \in 1 .. Len(sent)})

\* a call whose COMMIT was rejected after two up changes had run
C18_Witness ==
    /\ Returned
    /\ outcome = "failed"
    /\ Len(sent) >= 2
    /\ sent[Len(sent) - 1].q = "COMMIT"
    /\ sent[Len(sent)] = RollbackStmt
    /\ Len(StepStmts) = 4
    /\ db = pre

(***************************************************************************)
(* C19  The error that a failed migrate call propagates to its caller is   *)
(* the error raised by the failing statement (or by the failing read of a  *)
(* step), unchanged.                                                       *)
(***************************************************************************)
C19_OriginalErrorPropagated ==
    (Returned /\ outcome = "failed" /\ sent # <<>>)
        => \/ thrown = FailedStmt
           \/ thrown.q = "TypeError"

(***************************************************************************)
(* C20  Ledger frame condition.  A successful migrate call for the         *)
(* database name d changes only the ledger row of d: every ledger row with *)
(* another name has the latest_index and latest_name it had before the     *)
(* call.                                                                   *)
(***************************************************************************)
C20_OtherRowsUnchanged ==
    (Returned /\ outcome = "ok")
        => \A r \in pre.migration : r.db_name # DbName => r \in db.migration

\* the last call was made with a number outside [-1, N-1] as its target
NumericTargetOutOfRange ==
    /\ calls > 0
    /\ IsNum(migrationTarget)
    /\ migrationTarget.n \notin -1 .. NumMigrations - 1

(***************************************************************************)
(* C21  Position invariant.  After any sequence of migrate calls with any  *)
(* targets, the committed latest_index of every ledger row is an integer   *)
(* in [-1, N-1]; a call whose numeric target is below -1 or above N-1      *)
(* fails and leaves the committed database as it was.                      *)
(***************************************************************************)
C21_PositionInRange ==
    /\ \A r \in db.migration : r.latest_index \in -1 .. NumMigrations - 1
    /\ (Returned /\ NumericTargetOutOfRange)
          => /\ outcome = "failed"
             /\ db = pre

\* a call with target N from position 0: it ran the up changes of the steps
\* 1..N-1, failed on the read of step N and was rolled back
C21_Witness ==
    /\ Returned
    /\ migrationTarget = Num(NumMigrations)
    /\ outcome = "failed"
    /\ LatestIndex(pre) = 0
    /\ Len(StepStmts) = 2 * (NumMigrations - 1)
    /\ LatestIndex(db) = 0

IsLog(stmt) == stmt.q = "log"
\* the audit inserts the call sent, in order
LogStmts == SelectSeq(sent, IsLog)

IsPrefix(a, b) == Len(a) <= Len(b) /\ a = SubSeq(b, 1, Len(a))

(***************************************************************************)
(* C33  The audit log is append-only.  No step of any migrate call removes *)
(* or changes a committed audit record: the committed log only grows at    *)
(* its end.  After a call that succeeded the committed log is the log      *)
(* before the call followed by one record per audit insert of the call,    *)
(* in the order the steps were executed; after a failed call, or a call    *)
(* that executed no step, it is the log before the call.  The ids of the   *)
(* committed records increase along the log.                               *)
(***************************************************************************)
C33_AuditAppendOnly ==
    /\ [][IsPrefix(db.migration_log, db'.migration_log)]_migVars
    /\ [](\A j, k \in 1 .. Len(db.migration_log) :
            j < k => db.migration_log[j].id < db.migration_log[k].id)
    /\ [](Returned
            => /\ IsPrefix(pre.migration_log, db.migration_log)
               /\ outcome = "failed" => db.migration_log = pre.migration_log
               /\ outcome = "ok"
                     => /\ Len(NewLogRows) = Len(LogStmts)
                        /\ \A j \in 1 .. Len(NewLogRows) :
                              /\ NewLogRows[j].index = LogStmts[j].index
                              /\ NewLogRows[j].direction = LogStmts[j].dir
                              /\ NewLogRows[j].db_name = DbName)

\* a call that succeeded and added two records to a committed log that
\* already held records
C33_Witness ==
    /\ Returned
    /\ outcome = "ok"
    /\ Len(pre.migration_log) >= 1
    /\ Len(NewLogRows) = 2
    /\ db.migration_log = pre.migration_log \o NewLogRows

\* the ledger rows of the target
LedgerRows(d) == {r \in d.migration : r.db_name = DbName}
InsertStmt == Stmt("INSERT migration", "", -1)
IsInsert(stmt) == stmt = InsertStmt

(***************************************************************************)
(* C34  Ledger row lifecycle.  A migrate call inserts the ledger row of    *)
(* the target only when the target has none, once, before any up or down   *)
(* change, and with latest_index = -1; a call that finds the row inserts   *)
(* nothing.  The target never has two rows, and a committed row is never   *)
(* deleted.                                                                *)
(***************************************************************************)
C34_LedgerRowLifecycle ==
    /\ [](Cardinality(LedgerRows(db)) <= 1 /\ Cardinality(LedgerRows(tx)) <= 1)
    /\ [][LedgerRows(db) # {} => LedgerRows(db') # {}]_migVars
    /\ [](Len(SelectSeq(sent, IsInsert)) <= 1)
    /\ []((\E j \in 1 .. Len(sent) : sent[j] = InsertStmt) => LedgerRows(pre) = {})
    /\ [][sent' = Append(sent, InsertStmt)
            => /\ StepStmts = <<>>
               /\ LedgerRows(tx) = {}
               /\ pc' = "down_loop"
                     => /\ Cardinality(LedgerRows(tx')) = 1
                        /\ \A r \in LedgerRows(tx') : r.latest_index = -1
                        /\ i' = -1]_migVars
    /\ []((Returned /\ outcome = "ok") => LedgerRows(db) # {})

\* a first call that created the row and a second call that reused it
C34_Witness ==
    /\ Returned
    /\ outcome = "ok"
    /\ calls = 2
    /\ LedgerRows(pre) # {}
    /\ \A j \in 1 .. Len(sent) : sent[j] # InsertStmt
    /\ Len(StepStmts) >= 2
    /\ Cardinality(LedgerRows(db)) = 1

(***************************************************************************)
(* Buffers.  A Buffer is the sequence of the pieces it was assembled from; *)
(* a piece stands for the bytes [off, off+len) of the chunk numbered src   *)
(* (src = 0: the cached row description; src = -1: uninitialized memory).  *)
(***************************************************************************)
Piece(src, len) == [src |-> src, len |-> len]

RECURSIVE ByteLength(_)
\* buf.byteLength
ByteLength(buf) ==
    IF buf = <<>> THEN 0 ELSE Head(buf).len + ByteLength(Tail(buf))

RECURSIVE Concat(_)
\* Buffer.concat(list)
Concat(list) ==
    IF list = <<>> THEN <<>> ELSE Head(list) \o Concat(Tail(list))

(***************************************************************************)
(* DBPassThrough: the stream a query's raw result packets are written to,  *)
(* in front of a HTTP response.                                            *)
(***************************************************************************)
\* writes of one behaviour
MaxWrites == 4
\* byte length of the cached row description
RowParserLen == 100
\* if (this.bufferLength >= 65536)
FlushThreshold == 65536

\* byte lengths of the packets the query writes
ChunkSizes == {1, 26215, 32768, FlushThreshold - 1, FlushThreshold}

NoRowParser == <<>>

\* constructor(dst); rowParser is a property the query source sets later
InitPipe ==
    /\ pipe = [rowParser |-> NoRowParser,
               needToWriteRowParser |-> TRUE,
               needToWriteHeader |-> TRUE,
               buffer |-> <<>>,
               bufferLength |-> 0]
    /\ dst = <<>>
    /\ written = <<>>
    /\ lastWrite = [count |-> 0, flushed |-> FALSE, ops |-> 0]
    /\ pipePhase = "open"
    /\ endCalled = FALSE
    /\ lost = <<>>

Event(op, data) == [op |-> op, data |-> data]

\* a faulty variant of Queue: the row description is pushed after the chunk
QueueFrameLast(p, buf) ==
    [p EXCEPT
        !.buffer = IF p.needToWriteRowParser /\ p.rowParser # NoRowParser
                   THEN @ \o <<buf, p.rowParser>>
                   ELSE Append(@, buf),
        !.needToWriteRowParser = FALSE,
        !.bufferLength = @ + ByteLength(buf)]

\* a faulty variant of Queue: the flag is left set, every write queues the frame
QueueFrameEveryWrite(p, buf) ==
    [p EXCEPT
        !.buffer = IF p.needToWriteRowParser /\ p.rowParser # NoRowParser
                   THEN @ \o <<p.rowParser, buf>>
                   ELSE Append(@, buf),
        !.bufferLength = @ + ByteLength(buf)]

\* if (this.needToWriteRowParser) { if (this.rowParser) push(rowParser.buf); ... = false }
\* this.buffer.push(buf); this.bufferLength += buf.byteLength;
Queue(p, buf) ==
    [p EXCEPT
        !.buffer = IF p.needToWriteRowParser /\ p.rowParser # NoRowParser
                   THEN @ \o <<p.rowParser, buf>>
                   ELSE Append(@, buf),
        !.needToWriteRowParser = FALSE,
        !.bufferLength = @ + ByteLength(buf)]

\* a faulty variant of ShouldFlush: a count equal to the threshold does not flush
ShouldFlushAbove(p) == p.bufferLength > FlushThreshold

\* if (this.bufferLength >= 65536)
ShouldFlush(p) == p.bufferLength >= FlushThreshold

\* a faulty variant of HeaderDeclared: the flag is left set
HeaderDeclaredFlagKept(p) == p

\* this.needToWriteHeader = false;
HeaderDeclared(p) == [p EXCEPT !.needToWriteHeader = FALSE]

\* a faulty variant of Drained: the counter is not reset
DrainedCounterKept(p) == [p EXCEPT !.buffer = <<>>]

\* this.buffer.splice(0) empties the array; this.bufferLength = 0;
Drained(p) == [p EXCEPT !.buffer = <<>>, !.bufferLength = 0]

\* a faulty variant of FlushCalls: the body is written before the header
FlushCallsBodyFirst(p) ==
    <<Event("write", Concat(p.buffer))>>
        \o (IF p.needToWriteHeader THEN <<Event("writeHead", <<>>)>> ELSE <<>>)

\* a faulty variant of FlushCalls: two writes, the last chunk cut in two
FlushCallsSplit(p) ==
    LET all == Concat(p.buffer)
        last == all[Len(all)]
    IN  (IF p.needToWriteHeader THEN <<Event("writeHead", <<>>)>> ELSE <<>>)
            \o <<Event("write", Append(SubSeq(all, 1, Len(all) - 1),
                                       Piece(last.src, last.len \div 2))),
                 Event("write", <<Piece(last.src, last.len - last.len \div 2)>>)>>

\* the calls a flush makes on the destination
FlushCalls(p) ==
    (IF p.needToWriteHeader THEN <<Event("writeHead", <<>>)>> ELSE <<>>)
        \o <<Event("write", Concat(p.buffer))>>

\* the source caches the row description of the statement on the stream
\* before it writes the first packet
SetRowParser ==
    /\ pipePhase = "open"
    /\ pipe.needToWriteRowParser
    /\ pipe.rowParser = NoRowParser
    /\ pipe' = [pipe EXCEPT !.rowParser = <<Piece(0, RowParserLen)>>]
    /\ UNCHANGED <<dst, written, lastWrite, pipePhase, endCalled, lost>>
    /\ UNCHANGED <<migVars, bodyVars, clusterVars, webVars>>

\* a faulty variant of AfterSinkThrow: the array is not emptied
AfterSinkThrowKeepsBuffer(p) == HeaderDeclared(p)

\* this.dst.write(Buffer.concat(this.buffer.splice(0))) throws: splice(0) has
\* emptied the array before the call, the counter is not reset
AfterSinkThrow(p) == [HeaderDeclared(p) EXCEPT !.buffer = <<>>]

\* a faulty variant of EndCalls: the header is declared whatever the flag says
EndCallsHeaderAlways(p) ==
    <<Event("writeHead", <<>>), Event("end", Concat(p.buffer))>>

\* the calls end() makes on the destination
EndCalls(p) ==
    (IF p.needToWriteHeader THEN <<Event("writeHead", <<>>)>> ELSE <<>>)
        \o <<Event("end", Concat(p.buffer))>>

\* all but the last call: the last one threw
AllButLast(callSeq) == SubSeq(callSeq, 1, Len(callSeq) - 1)

\* number of write calls among the destination calls j > from
WritesAfter(events, from) ==
    Cardinality({j \in from + 1 .. Len(events) : events[j].op = "write"})

\* write(buf); a write() that threw does not stop the source from calling again
Write(len) ==
    /\ pipePhase \in {"open", "failed"}
    /\ ~endCalled
    /\ Len(written) < MaxWrites
    /\ LET buf == <<Piece(Len(written) + 1, len)>>
           queued == Queue(pipe, buf)
       IN  /\ written' = Append(written, buf)
           /\ IF ShouldFlush(queued)
              THEN \/ /\ dst' = dst \o FlushCalls(queued)
                      /\ pipe' = Drained(HeaderDeclared(queued))
                      /\ UNCHANGED <<pipePhase, lost>>
                   \* this.dst.write throws
                   \/ /\ dst' = dst \o AllButLast(FlushCalls(queued))
                      /\ pipe' = AfterSinkThrow(queued)
                      /\ pipePhase' = "failed"
                      /\ lost' = lost \o Concat(queued.buffer)
              ELSE /\ pipe' = queued
                   /\ UNCHANGED <<dst, pipePhase, lost>>
           \* what the call did, as seen from outside: the counter it reached,
           \* whether the destination received a write, and how many
           /\ lastWrite' =
                [count |-> queued.bufferLength,
                 flushed |-> WritesAfter(dst', Len(dst)) > 0,
                 ops |-> WritesAfter(dst', Len(dst))]
    /\ UNCHANGED endCalled
    /\ UNCHANGED <<migVars, bodyVars, clusterVars, webVars>>

\* end(): called once by queryTo when the query has resolved
End ==
    /\ pipePhase \in {"open", "failed"}
    /\ ~endCalled
    /\ endCalled' = TRUE
    /\ \/ /\ dst' = dst \o EndCalls(pipe)
          /\ pipePhase' = IF pipePhase = "open" THEN "ended" ELSE pipePhase
          /\ UNCHANGED lost
       \* this.dst.end throws
       \/ /\ dst' = dst \o AllButLast(EndCalls(pipe))
          /\ pipePhase' = "failed"
          /\ lost' = lost \o Concat(pipe.buffer)
    /\ pipe' = [pipe EXCEPT !.buffer = <<>>]
    /\ UNCHANGED <<written, lastWrite>>
    /\ UNCHANGED <<migVars, bodyVars, clusterVars, webVars>>

PipeNext ==
    \/ SetRowParser
    \/ \E len \in ChunkSizes : Write(len)
    \/ End

(***************************************************************************)
(* Readings of the destination, for the properties.                        *)
(***************************************************************************)
IsBody(e) == e.op \in {"write", "end"}
IsWrite(e) == e.op = "write"
IsHead(e) == e.op = "writeHead"

EventData(events) == [j \in 1 .. Len(events) |-> events[j].data]
\* every byte the destination received, in order
Received == Concat(EventData(SelectSeq(dst, IsBody)))
SinkWrites == SelectSeq(dst, IsWrite)
HeadCount == Len(SelectSeq(dst, IsHead))
WrittenLens == [j \in 1 .. Len(written) |-> ByteLength(written[j])]

(***************************************************************************)
(* C7  Pipe byte preservation, as claimed: after any sequence of write     *)
(* calls followed by end(), the bytes the destination received (every      *)
(* flush plus the bytes passed to end) are the leading frame, if the pipe  *)
(* has one, followed by the written chunks in call order.                  *)
(***************************************************************************)
C7_FrameThenChunks ==
    pipePhase = "ended"
        => Received = pipe.rowParser \o Concat(written)

(***************************************************************************)
(* C7  as amended: the leading frame is part of the output only when at    *)
(* least one write call was made (it is queued by the first write); with   *)
(* no write call the destination receives no byte.  Nothing is dropped,    *)
(* duplicated or reordered.                                                *)
(***************************************************************************)
C7_FrameWithFirstWriteThenChunks ==
    pipePhase = "ended"
        => Received =
             (IF written # <<>> THEN pipe.rowParser ELSE <<>>) \o Concat(written)

\* a pipe with a leading frame, a flush in the middle and a rest passed to end()
C7_Witness ==
    /\ pipePhase = "ended"
    /\ pipe.rowParser # NoRowParser
    /\ Len(written) = 4
    /\ Len(SinkWrites) = 1
    /\ dst[Len(dst)].data # <<>>

(***************************************************************************)
(* C8  Header-once guarantee.  The status and headers of the destination   *)
(* are never declared twice, and after any number of write calls (and      *)
(* flushes) followed by end() they have been declared exactly once.        *)
(***************************************************************************)
C8_HeaderOnce ==
    /\ HeadCount <= 1
    /\ pipePhase = "ended" => HeadCount = 1

\* an ended pipe that flushed on two different write calls
C8_Witness ==
    /\ pipePhase = "ended"
    /\ Len(SinkWrites) >= 2

(***************************************************************************)
(* C9  Threshold flush.  A write() call writes to the destination if and   *)
(* only if the running byte count after appending its chunk is at least    *)
(* the flush threshold (a count equal to the threshold flushes), unless    *)
(* the destination throws.  With three chunks of two fifths of the         *)
(* threshold and no leading frame, nothing is written during the first two *)
(* writes, the third writes all three chunks at once, and end() passes     *)
(* zero bytes.                                                             *)
(***************************************************************************)
C9_FlushIffThresholdReached ==
    /\ (pipePhase # "failed" /\ written # <<>>)
          => (lastWrite.flushed <=> lastWrite.count >= FlushThreshold)
    /\ (pipePhase # "failed" /\ pipe.rowParser = NoRowParser
            /\ WrittenLens \in {<<26215>>, <<26215, 26215>>})
          => SinkWrites = <<>>
    /\ (pipePhase # "failed" /\ pipe.rowParser = NoRowParser
            /\ WrittenLens = <<26215, 26215, 26215>>)
          => /\ Len(SinkWrites) = 1
             /\ SinkWrites[1].data = Concat(written)
             /\ ByteLength(SinkWrites[1].data) = 78645
             /\ pipePhase = "ended" => dst[Len(dst)] = Event("end", <<>>)

\* the three-chunk example after end()
C9_Witness ==
    /\ pipePhase = "ended"
    /\ pipe.rowParser = NoRowParser
    /\ WrittenLens = <<26215, 26215, 26215>>
    /\ lastWrite.flushed

IsEnd(e) == e.op = "end"
\* the bytes of a buffer, as a set of pieces
Pieces(buf) == {buf[k] : k \in 1 .. Len(buf)}
\* the leading frame, once the first write has been made
FrameIfWritten == IF written # <<>> THEN pipe.rowParser ELSE <<>>
\* the bytes still held in the pending queue
Queued == Concat(pipe.buffer)

(***************************************************************************)
(* C22  end() behaviour.  end() declares the header of the destination if  *)
(* and only if no flush has declared it before, passes all the bytes still *)
(* queued to the destination and signals completion exactly once (never    *)
(* twice); for a pipe with zero writes the destination sees exactly one    *)
(* header declaration followed by completion with a zero-byte body.        *)
(***************************************************************************)
C22_EndBehaviour ==
    /\ Len(SelectSeq(dst, IsEnd)) <= 1
    /\ pipePhase = "ended"
          => /\ Len(SelectSeq(dst, IsEnd)) = 1
             /\ dst[Len(dst)].op = "end"
             /\ HeadCount = 1
             /\ (dst[Len(dst) - 1].op = "writeHead") <=> (SinkWrites = <<>>)
             /\ Concat(EventData(SinkWrites)) \o dst[Len(dst)].data
                   = FrameIfWritten \o Concat(written)
             /\ Queued = <<>>
             /\ written = <<>>
                   => dst = <<Event("writeHead", <<>>), Event("end", <<>>)>>

\* a stream shorter than the threshold: the header is declared by end(),
\* which passes the two queued chunks
C22_Witness ==
    /\ pipePhase = "ended"
    /\ SinkWrites = <<>>
    /\ Len(written) = 2
    /\ dst[1].op = "writeHead"
    /\ Len(dst[2].data) = 2

(***************************************************************************)
(* C23  Leading frame.  When the pipe has a cached row description, it is  *)
(* queued exactly once, by the first write and immediately before that     *)
(* write's chunk; no later write queues it again.  Unless the destination  *)
(* throws, it is therefore the first bytes the destination receives.       *)
(***************************************************************************)
C23_LeadingFrameOnce ==
    (pipe.rowParser # NoRowParser /\ written # <<>>)
        => /\ ~pipe.needToWriteRowParser
           /\ Len(SelectSeq(Received \o lost \o Queued,
                            LAMBDA piece : piece.src = 0)) = 1
           /\ pipePhase # "failed"
                 => /\ Received \o Queued = pipe.rowParser \o Concat(written)
                    /\ Received # <<>> => Received[1] = pipe.rowParser[1]

\* a pipe with a row description after three writes, one of which flushed
C23_Witness ==
    /\ pipePhase = "open"
    /\ pipe.rowParser # NoRowParser
    /\ Len(written) = 3
    /\ Len(SinkWrites) = 1
    /\ Queued # <<>>

(***************************************************************************)
(* C24  Sink failure.  If the write or end operation of the destination    *)
(* throws during write() or end(), the call throws to its caller, and the  *)
(* bytes given to the operation that threw are neither kept in the queue   *)
(* nor written to the destination by that call or by any later call.       *)
(***************************************************************************)
C24_SinkFailureNotRetried ==
    /\ lost # <<>> => pipePhase = "failed"
    /\ Pieces(lost) \cap Pieces(Received) = {}
    /\ Pieces(lost) \cap Pieces(Queued) = {}

\* the first flush threw; a later write flushed and end() completed
C24_Witness ==
    /\ pipePhase = "failed"
    /\ lost # <<>>
    /\ lost[Len(lost)].src = 1
    /\ SinkWrites # <<>>
    /\ endCalled
    /\ dst[Len(dst)].op = "end"

(***************************************************************************)
(* C26  Frame boundaries.  The bytes of every write to the destination,    *)
(* and the bytes passed with end, are a concatenation of whole queued      *)
(* buffers: each is the row description or one chunk given to write() in   *)
(* full, and no chunk is in two destination operations.                    *)
(***************************************************************************)
C26_WholeChunks ==
    /\ \A j \in 1 .. Len(dst) :
          Pieces(dst[j].data) \subseteq Pieces(pipe.rowParser \o Concat(written))
    /\ Cardinality(Pieces(Received)) = Len(Received)

\* a write of three chunks at once, and a fourth chunk passed with end
C26_Witness ==
    /\ pipePhase = "ended"
    /\ Len(SinkWrites) = 1
    /\ Len(SinkWrites[1].data) = 3
    /\ Len(dst[Len(dst)].data) = 1

(***************************************************************************)
(* C27  Header before body.  In every execution of a pipe the header of    *)
(* the destination is declared before the first body bytes are written to  *)
(* it and before the completion signal.                                    *)
(***************************************************************************)
C27_HeaderFirst ==
    \A j \in 1 .. Len(dst) :
        IsBody(dst[j]) => \E k \in 1 .. j - 1 : IsHead(dst[k])

\* header, two flushes and the completion signal
C27_Witness ==
    /\ pipePhase = "ended"
    /\ Len(dst) = 4
    /\ Len(SinkWrites) = 2

(***************************************************************************)
(* C28  Flush effect.  A flush (a write() whose destination write did not  *)
(* throw) writes all the chunks queued since the previous flush in a       *)
(* single destination operation and leaves the queue empty and the running *)
(* byte count zero.                                                        *)
(***************************************************************************)
C28_FlushEffect ==
    (written # <<>> /\ lastWrite.flushed /\ pipePhase # "failed")
        => /\ lastWrite.ops = 1
           /\ Queued = <<>>
           /\ pipe.bufferLength = 0
           /\ Concat(EventData(SinkWrites)) = pipe.rowParser \o Concat(written)

\* the second flush of a pipe: it wrote the chunks queued after the first
C28_Witness ==
    /\ pipePhase = "open"
    /\ lastWrite.flushed
    /\ Len(written) = 3
    /\ Len(SinkWrites) = 2
    /\ Len(SinkWrites[2].data) = 2

(***************************************************************************)
(* C29  Buffered-bytes bound.  After every write() call that returns, the  *)
(* number of bytes held in the pending queue (all queued chunks and the    *)
(* row description queued in front of them) is strictly less than the      *)
(* flush threshold.                                                        *)
(***************************************************************************)
C29_QueueBelowThreshold ==
    (written # <<>> /\ pipePhase # "failed")
        => ByteLength(Queued) < FlushThreshold

(***************************************************************************)
(* bodyAsBuffer(req, maxLen): collects the 'data' events of a request in   *)
(* one buffer and resolves with it on 'end'.                               *)
(***************************************************************************)
\* 'data' events of one request
MaxChunks == 3
\* Buffer.allocUnsafe(4096)
InitialCapacity == 4096

\* the byte length of a very large chunk: half a gigabyte
LargeChunk == 536870912

\* byte lengths of the chunks a request delivers
BodyChunkSizes == {1, 60, InitialCapacity, 4097, 10000, LargeChunk}
\* the maxLen arguments: the default of bodyAsBuffer and two small limits
MaxLens == {100, 8192, 10000000}

Uninitialized(len) == IF len = 0 THEN <<>> ELSE <<Piece(-1, len)>>

RECURSIVE CeilLog2(_)
\* Math.ceil(Math.log2(n)), n >= 1
CeilLog2(n) == IF n <= 1 THEN 0 ELSE 1 + CeilLog2((n + 1) \div 2)

\* 1 << k on 32-bit integers: the shift count is taken modulo 32 and
\* bit 31 is the sign
ShiftLeft1(k) == IF k % 32 = 31 THEN -2147483647 - 1 ELSE 2 ^ (k % 32)

InitBody ==
    /\ body = [index |-> 0, capacity |-> 0, content |-> <<>>,
               promise |-> "none", result |-> <<>>, error |-> ""]
    /\ maxLen = 0
    /\ chunks = <<>>
    /\ reqPhase = "none"

\* Error('413: Body too large')
BodyTooLarge == "413: Body too large"
\* the error of an 'error' event of the request
RequestError == "request error"

\* resolve() and reject() settle a promise once; later calls do nothing
Settle(b, how, value) ==
    IF b.promise # "pending" THEN b
    ELSE IF how = "rejected"
    THEN [b EXCEPT !.promise = how, !.error = value]
    ELSE [b EXCEPT !.promise = how, !.result = value]

\* a faulty variant of TooLarge: a total equal to the maximum is refused
TooLargeAtLimit(index, max) == index >= max

\* if (index > maxLen)
TooLarge(index, max) == index > max

\* Regrown as it would be with the old buffer copied into the new one
\* (for comparison: the round trip holds with it)
RegrownWithCopy(b, index, stale) ==
    [b EXCEPT !.capacity = ShiftLeft1(CeilLog2(index))]

\* buffer = Buffer.allocUnsafe(1 << Math.ceil(Math.log2(index))); buffer.set(buffer);
\* buffer already names the new allocation when set copies it onto itself,
\* so the first b.index bytes are whatever the allocation held: the old
\* bytes by coincidence (stale), or anything else
Regrown(b, index, stale) ==
    [b EXCEPT !.capacity = ShiftLeft1(CeilLog2(index)),
              !.content = IF stale THEN @ ELSE Uninitialized(b.index)]

\* var index = 0, buffer = Buffer.allocUnsafe(4096);
BodyAsBuffer(max) ==
    /\ reqPhase = "none"
    /\ maxLen' = max
    /\ body' = [index |-> 0, capacity |-> InitialCapacity, content |-> <<>>,
                promise |-> "pending", result |-> <<>>, error |-> ""]
    /\ reqPhase' = "open"
    /\ UNCHANGED chunks
    /\ UNCHANGED <<migVars, pipeVars, clusterVars, webVars>>

\* req.on('data', function(b) {...})
Data(len) ==
    /\ reqPhase = "open"
    /\ Len(chunks) < MaxChunks
    /\ chunks' = Append(chunks, len)
    /\ \E stale \in BOOLEAN :
        LET b == <<Piece(Len(chunks) + 1, len)>>
            index == body.index + len
            \* if (index > maxLen) reject(Error('413: Body too large'));
            checked == IF TooLarge(index, maxLen)
                       THEN Settle(body, "rejected", BodyTooLarge)
                       ELSE body
            \* Buffer.allocUnsafe(size) throws a RangeError for a negative
            \* size, before buffer is assigned
            allocated == ShiftLeft1(CeilLog2(index)) >= 0
            \* if (index > buffer.byteLength) {...}
            grown == IF index > checked.capacity /\ allocated
                     THEN Regrown(checked, index, stale)
                     ELSE checked
        IN  IF index > grown.capacity
            \* the handler throws: in Buffer.allocUnsafe, or in
            \* buffer.set(b, index - b.byteLength) with b past the end
            THEN /\ body' = [grown EXCEPT !.index = index]
                 /\ reqPhase' = "crashed"
            ELSE /\ body' = [grown EXCEPT !.index = index, !.content = @ \o b]
                 /\ UNCHANGED reqPhase
    /\ UNCHANGED maxLen
    /\ UNCHANGED <<migVars, pipeVars, clusterVars, webVars>>

\* req.on('end', function() { resolve(buffer.slice(0, index)) });
EndOfBody ==
    /\ reqPhase = "open"
    /\ body' = Settle(body, "resolved", body.content)
    /\ reqPhase' = "ended"
    /\ UNCHANGED <<maxLen, chunks>>
    /\ UNCHANGED <<migVars, pipeVars, clusterVars, webVars>>

\* req.on('error', reject);
ErrorOfBody ==
    /\ reqPhase = "open"
    /\ body' = Settle(body, "rejected", RequestError)
    /\ reqPhase' = "errored"
    /\ UNCHANGED <<maxLen, chunks>>
    /\ UNCHANGED <<migVars, pipeVars, clusterVars, webVars>>

BodyNext ==
    \/ \E max \in MaxLens : BodyAsBuffer(max)
    \/ \E len \in BodyChunkSizes : Data(len)
    \/ EndOfBody
    \/ ErrorOfBody

RECURSIVE Sum(_)
Sum(lens) == IF lens = <<>> THEN 0 ELSE Head(lens) + Sum(Tail(lens))

\* the exact concatenation of the chunks in arrival order
ChunksInOrder == [j \in 1 .. Len(chunks) |-> Piece(j, chunks[j])]

(***************************************************************************)
(* C10  Accumulator round-trip.  When the promise resolves (the total is   *)
(* not above maxLen), its buffer is the exact concatenation of the chunks  *)
(* in arrival order, whether or not the total exceeded the initial         *)
(* capacity of 4096 bytes, and it is empty for zero chunks.                *)
(***************************************************************************)
C10_RoundTrip ==
    (body.promise = "resolved" /\ Sum(chunks) <= maxLen)
        => body.result = ChunksInOrder

(***************************************************************************)
(* C30  Growth preserves content.  When an incoming chunk makes the        *)
(* running total exceed the capacity of the buffer, the reallocated buffer *)
(* holds at the offsets [0, previous length) exactly the bytes accumulated *)
(* before that chunk, and the chunk is stored at offset previous length:   *)
(* after a growth the buffer still holds the chunks received so far, in    *)
(* arrival order.                                                          *)
(***************************************************************************)
C30_GrowthPreservesContent ==
    (reqPhase \in {"open", "ended", "errored"} /\ body.capacity > InitialCapacity)
        => body.content = ChunksInOrder

(***************************************************************************)
(* C11  Oversize rejection.  The promise is rejected with the error        *)
(* '413: Body too large' at the first 'data' event that makes the total    *)
(* strictly greater than maxLen: it is still pending while the total is at *)
(* most maxLen (a total equal to maxLen resolves on 'end'), and once the   *)
(* total is above maxLen it is rejected with that error in every later     *)
(* state, whatever 'data' and 'end' events follow.                         *)
(***************************************************************************)
C11_OversizeRejected ==
    /\ (reqPhase = "open" /\ Sum(chunks) <= maxLen) => body.promise = "pending"
    /\ (reqPhase = "ended" /\ Sum(chunks) <= maxLen) => body.promise = "resolved"
    /\ (reqPhase # "none" /\ Sum(chunks) > maxLen)
          => /\ body.promise = "rejected"
             /\ reqPhase # "errored" => body.error = BodyTooLarge
             /\ Sum(SubSeq(chunks, 1, Len(chunks) - 1)) <= maxLen
                   => body.error = BodyTooLarge

\* maxLen = 100, chunks of 60 and 60 and one more, then 'end'
C11_Witness ==
    /\ maxLen = 100
    /\ chunks = <<60, 60, 1>>
    /\ reqPhase = "ended"
    /\ body.promise = "rejected"

RECURSIVE IsPowerOfTwo(_)
IsPowerOfTwo(n) ==
    IF n <= 0 THEN FALSE
    ELSE IF n = 1 THEN TRUE
    ELSE n % 2 = 0 /\ IsPowerOfTwo(n \div 2)

(***************************************************************************)
(* C31  Capacity invariant.  At every point of an accumulation the buffer  *)
(* capacity is a power of two, at least 4096 and at least the running      *)
(* total, and 1 << ceil(log2(total)) is never smaller than the total.      *)
(***************************************************************************)
C31_CapacityInvariant ==
    reqPhase # "none"
        => /\ IsPowerOfTwo(body.capacity)
           /\ body.capacity >= InitialCapacity
           /\ body.capacity >= body.index
           /\ body.index >= 1
                 => ShiftLeft1(CeilLog2(body.index)) >= body.index

(***************************************************************************)
(* C32  Abandon on oversize.  A 'data' event that leaves the running total *)
(* above maxLen stores no byte of its chunk and does not grow the buffer.  *)
(***************************************************************************)
C32_NothingStoredAfterOversize ==
    [][(reqPhase = "open" /\ body'.index > maxLen)
          => /\ body'.content = body.content
             /\ body'.capacity = body.capacity]_bodyVars

(***************************************************************************)
(* Cluster start-up (index.js): the master forks the workers, registers    *)
(* the 'exit' handler and starts the migration; every worker connects to   *)
(* the database and then listens.                                          *)
(***************************************************************************)
\* require('os').cpus().length
NumCPUs == 2
\* worker exits in one behaviour
MaxExits == 2
\* requests answered in one behaviour
MaxRequests == 2

InitCluster ==
    /\ master = "off"
    /\ migration = "none"
    /\ workers = <<>>
    /\ served = 0
    /\ exits = 0
    /\ invoked = <<>>

\* cluster.fork(): a new worker process, not yet listening
Fork(ws) == Append(ws, "started")

RECURSIVE ForkTimes(_, _)
\* for (let i = 0; i < numCPUs; i++) cluster.fork();
ForkTimes(ws, n) == IF n = 0 THEN ws ELSE ForkTimes(Fork(ws), n - 1)

Live(ws) == {w \in 1 .. Len(ws) : ws[w] # "exited"}

\* if (cluster.isMaster) { for (...) cluster.fork(); cluster.on('exit', ...);
\*                         DB.connect().then(() => migrate(Migrations)); }
MasterStart ==
    /\ master = "off"
    /\ workers' = ForkTimes(workers, NumCPUs)
    /\ master' = "connecting"
    /\ UNCHANGED <<migration, served, exits, invoked>>
    /\ UNCHANGED <<migVars, pipeVars, bodyVars, webVars>>

\* DB.connect() of the master settles: .then(() => migrate(Migrations));
\* a rejection is not handled and the master keeps running
MasterConnected ==
    /\ master = "connecting"
    /\ \/ /\ master' = "migrating"
          /\ migration' = "running"
          /\ invoked' = Append(invoked, "master")
       \/ /\ master' = "done"
          /\ UNCHANGED <<migration, invoked>>
    /\ UNCHANGED <<workers, served, exits>>
    /\ UNCHANGED <<migVars, pipeVars, bodyVars, webVars>>

\* migrate(Migrations) resolves after COMMIT
MigrateResolved ==
    /\ master = "migrating"
    /\ migration' = "committed"
    /\ master' = "done"
    /\ UNCHANGED <<workers, served, exits, invoked>>
    /\ UNCHANGED <<migVars, pipeVars, bodyVars, webVars>>

\* migrate(Migrations) rejects after ROLLBACK; nothing handles the rejection
MigrateRejected ==
    /\ master = "migrating"
    /\ migration' = "failed"
    /\ master' = "done"
    /\ UNCHANGED <<workers, served, exits, invoked>>
    /\ UNCHANGED <<migVars, pipeVars, bodyVars, webVars>>

\* a faulty variant of WorkerBranch: the worker migrates before it listens
WorkerBranchMigrates(inv, w) == Append(inv, "worker")

\* the else branch of `if (cluster.isMaster)`: it holds no call of migrate
WorkerBranch(inv, w) == inv

\* } else { DB.connect().then(() => server.listen(HTTP_SERVER_PORT, ...)); }
WorkerListen(w) ==
    /\ workers[w] = "started"
    /\ workers' = [workers EXCEPT ![w] = "listening"]
    /\ invoked' = WorkerBranch(invoked, w)
    /\ UNCHANGED <<master, migration, served, exits>>
    /\ UNCHANGED <<migVars, pipeVars, bodyVars, webVars>>

\* HTTP.createServer(async function(req, res) {...}): one request answered
Serve(w) ==
    /\ workers[w] = "listening"
    /\ served < MaxRequests
    /\ served' = served + 1
    /\ UNCHANGED <<master, migration, workers, exits, invoked>>
    /\ UNCHANGED <<migVars, pipeVars, bodyVars, webVars>>

Exited(ws) == {w \in 1 .. Len(ws) : ws[w] = "exited"}

\* a worker process exits (crash, kill, uncaught error): the master will get
\* an 'exit' event for it
WorkerExit(w) ==
    /\ workers[w] # "exited"
    /\ Cardinality(Exited(workers)) < MaxExits
    /\ workers' = [workers EXCEPT ![w] = "exited"]
    /\ exits' = exits + 1
    /\ UNCHANGED <<master, migration, served, invoked>>
    /\ UNCHANGED <<migVars, pipeVars, bodyVars, webVars>>

\* a faulty variant of OnExitHandler: no replacement is forked
OnExitIgnored(ws) == ws

\* (worker, code, signal) => cluster.fork()
OnExitHandler(ws) == Fork(ws)

\* cluster.on('exit', ...): the handler runs for one 'exit' event; it is
\* registered in the tick that forked the first workers
OnExit ==
    /\ exits > 0
    /\ exits' = exits - 1
    /\ workers' = OnExitHandler(workers)
    /\ UNCHANGED <<master, migration, served, invoked>>
    /\ UNCHANGED <<migVars, pipeVars, bodyVars, webVars>>

ClusterNext ==
    \/ MasterStart
    \/ MasterConnected
    \/ MigrateResolved
    \/ MigrateRejected
    \/ \E w \in DOMAIN workers : WorkerListen(w)
    \/ \E w \in DOMAIN workers : Serve(w)
    \/ \E w \in DOMAIN workers : WorkerExit(w)
    \/ OnExit

(***************************************************************************)
(* C17  Start-up ordering.  No worker process is forked, and so no request *)
(* is answered, before the migration transaction has committed; if migrate *)
(* fails, no worker is ever started.                                       *)
(***************************************************************************)
C17_NoWorkerBeforeCommit ==
    (workers # <<>> \/ served > 0) => migration = "committed"

LiveCount == Cardinality(Live(workers))

(***************************************************************************)
(* C25  Worker auto-restart.  Whenever a worker process exits, the master  *)
(* forks a replacement: once the master has started, the live workers and  *)
(* the exits not yet handled add up to the configured worker count, and    *)
(* after any finite number of worker exits the number of live workers      *)
(* eventually returns to the configured worker count.                      *)
(***************************************************************************)
C25_WorkersRestored ==
    /\ [](master # "off" => LiveCount + exits = NumCPUs)
    /\ (master # "off" /\ LiveCount # NumCPUs) ~> (LiveCount = NumCPUs)

\* MaxExits workers have exited and every one of them has been replaced
C25_Witness ==
    /\ Cardinality(Exited(workers)) = MaxExits
    /\ exits = 0
    /\ LiveCount = NumCPUs
    /\ Len(workers) = NumCPUs + MaxExits

(***************************************************************************)
(* serveDirectory(baseDirectory): a watcher keeps a cache of the files of  *)
(* the directory; the model follows one path.  Every change of the file    *)
(* makes the watcher emit one event; the handler deletes the entry of the  *)
(* path and starts an asynchronous read, whose callback stores what was    *)
(* read.                                                                   *)
(***************************************************************************)
\* changes of the file in one behaviour
MaxEvents == 3

\* no entry for the path in cache
NoEntry == [event |-> 0, content |-> 0]
\* a read that has not reached the file yet
NotRead == -1

InitCache ==
    /\ file = 0
    /\ changes = 0
    /\ handled = 0
    /\ reads = {}
    /\ cache = NoEntry

\* the file is created or rewritten: its content is new
WriteFile ==
    /\ changes < MaxEvents
    /\ changes' = changes + 1
    /\ file' = changes'
    /\ UNCHANGED <<handled, reads, cache>>
    /\ UNCHANGED <<migVars, pipeVars, bodyVars, clusterVars, guardVars>>

\* the file is removed
Unlink ==
    /\ changes < MaxEvents
    /\ file # 0
    /\ changes' = changes + 1
    /\ file' = 0
    /\ UNCHANGED <<handled, reads, cache>>
    /\ UNCHANGED <<migVars, pipeVars, bodyVars, clusterVars, guardVars>>

\* .on('all', async (_, filename) => { delete cache['/'+filename]; fs.readFile(..., callback); })
OnAll ==
    /\ handled < changes
    /\ handled' = handled + 1
    /\ cache' = NoEntry
    /\ reads' = reads \cup {[event |-> handled', data |-> NotRead]}
    /\ UNCHANGED <<file, changes>>
    /\ UNCHANGED <<migVars, pipeVars, bodyVars, clusterVars, guardVars>>

\* fs.readFile reads the file as it is at that moment, or fails (no file,
\* a directory, no permission)
ReadFile(r) ==
    /\ r.data = NotRead
    /\ \E data \in {file, 0} :
          reads' = (reads \ {r}) \cup {[r EXCEPT !.data = data]}
    /\ UNCHANGED <<file, changes, handled, cache>>
    /\ UNCHANGED <<migVars, pipeVars, bodyVars, clusterVars, guardVars>>

\* (_, buffer) => buffer && ( cache['/'+filename] = { buffer, headers } )
ReadFileCallback(r) ==
    /\ r.data # NotRead
    /\ reads' = reads \ {r}
    /\ cache' = IF r.data # 0 THEN [event |-> r.event, content |-> r.data] ELSE cache
    /\ UNCHANGED <<file, changes, handled>>
    /\ UNCHANGED <<migVars, pipeVars, bodyVars, clusterVars, guardVars>>

CacheNext ==
    \/ WriteFile
    \/ Unlink
    \/ OnAll
    \/ \E r \in reads : ReadFile(r)
    \/ \E r \in reads : ReadFileCallback(r)

\* every watcher event of the path has been handled and no read is in flight
Quiescent == handled = changes /\ reads = {}

(***************************************************************************)
(* C36  Static-file cache coherence.  Once every watcher event and every   *)
(* read of the path has completed, the cache holds the content of the file *)
(* as read for the most recent event, or no entry if the file was removed  *)
(* or could not be read; and the callback of a read never replaces the     *)
(* cached content by an older content.                                     *)
(***************************************************************************)
C36_CacheCoherent ==
    /\ [](Quiescent
            => /\ file = 0 => cache = NoEntry
               /\ cache # NoEntry => cache.content = file)
    /\ [][(cache # NoEntry /\ cache' # NoEntry)
            => cache'.content >= cache.content]_cacheVars

(***************************************************************************)
(* The endpoints that change the database behind guardPostWithSession or   *)
(* guardPostWithUserAndJson, and the catch block of the server that turns  *)
(* a thrown error into the response.                                       *)
(***************************************************************************)
\* requests in one behaviour
MaxGuarded == 2

Endpoints == {"user.logout", "user.logoutAll", "user.edit",
              "items.create", "items.edit", "items.delete"}
Methods == {"GET", "POST"}
\* a header that the request does not carry
Absent == "<absent>"
\* the sessions table: one session
Sessions == {[id |-> "11111111-1111-4111-8111-111111111111", user_id |-> "u1", csrf |-> "c1"]}
\* values of the session header: none, the id of the session, another
\* UUID, a text that is not a UUID
SessionHeaders == {Absent} \cup {s.id : s \in Sessions}
                    \cup {"22222222-2222-4222-8222-222222222222", "not-a-uuid"}
CsrfHeaders == {Absent} \cup {s.csrf : s \in Sessions} \cup {"c2"}
\* bodies of the request: a JSON text, anything else
Bodies == {"{...}", "garbage"}

\* rows[0] of a result without rows
NoSession == [id |-> "", user_id |-> "", csrf |-> ""]
NoRequest == [endpoint |-> "", method |-> "", session |-> Absent, csrf |-> Absent, body |-> ""]

\* the id column of sessions is of type UUID
IsUuid(text) == text \in {s.id : s \in Sessions} \cup {"22222222-2222-4222-8222-222222222222"}

MethodNotAllowed == "405: Only POST accepted"
SessionInvalid == "401: User session invalid, please re-authenticate"
CsrfInvalid == "401: Invalid CSRF token, please re-authenticate"
NotFound == "404: not found"
\* the error of the database for a parameter that is not a UUID
UuidSyntax == "invalid input syntax for type uuid"
\* the SyntaxError of JSON.parse
JsonSyntax == "Unexpected token g in JSON at position 0"

\* parseInt(message.slice(0,3)); 0 stands for NaN
ParseIntSlice(m) ==
    CASE m = MethodNotAllowed -> 405
      [] m \in {SessionInvalid, CsrfInvalid} -> 401
      [] m = NotFound -> 404
      [] OTHER -> 0

\* const status = parseInt(message.slice(0,3)) || 500;
StatusOf(m) == IF ParseIntSlice(m) # 0 THEN ParseIntSlice(m) ELSE 500

\* (await DB.query('SELECT * FROM sessions WHERE id = $1', [req.headers['session']])).rows[0]
\* an absent header is sent as NULL, which equals no id
RowsOf(header) == {s \in Sessions : s.id = header}

InitGuard ==
    /\ req = NoRequest
    /\ guardPc = "idle"
    /\ session = NoSession
    /\ message = ""
    /\ statusCode = 0
    /\ mutated = FALSE
    /\ guarded = 0

\* an assert that fails, or a rejected query: control goes to the catch block
GuardThrow(m) ==
    /\ message' = m
    /\ guardPc' = "catch"

\* a request arrives at one of the endpoints
Request(endpoint, method, sessionHeader, csrfHeader, requestBody) ==
    /\ guardPc \in {"idle", "done"}
    /\ guarded < MaxGuarded
    /\ guarded' = guarded + 1
    /\ req' = [endpoint |-> endpoint, method |-> method, session |-> sessionHeader,
               csrf |-> csrfHeader, body |-> requestBody]
    /\ guardPc' = "method"
    /\ session' = NoSession
    /\ message' = ""
    /\ statusCode' = 0
    /\ mutated' = FALSE
    /\ UNCHANGED <<migVars, pipeVars, bodyVars, clusterVars, cacheVars>>

\* assert(req.method === 'POST', "405: Only POST accepted");
CheckMethod ==
    /\ guardPc = "method"
    /\ IF req.method = "POST"
       THEN /\ guardPc' = "sessionGet"
            /\ UNCHANGED message
       ELSE GuardThrow(MethodNotAllowed)
    /\ UNCHANGED <<req, session, statusCode, mutated, guarded>>
    /\ UNCHANGED <<migVars, pipeVars, bodyVars, clusterVars, cacheVars>>

\* const session = await sessionGet(req);
\* the database rejects a session header that is not a UUID
SessionGet ==
    /\ guardPc = "sessionGet"
    /\ IF req.session # Absent /\ ~IsUuid(req.session)
       THEN /\ GuardThrow(UuidSyntax)
            /\ UNCHANGED session
       ELSE /\ session' = IF RowsOf(req.session) = {} THEN NoSession
                          ELSE CHOOSE s \in RowsOf(req.session) : TRUE
            /\ guardPc' = "session"
            /\ UNCHANGED message
    /\ UNCHANGED <<req, statusCode, mutated, guarded>>
    /\ UNCHANGED <<migVars, pipeVars, bodyVars, clusterVars, cacheVars>>

\* assert(session, '401: User session invalid, please re-authenticate');
CheckSession ==
    /\ guardPc = "session"
    /\ IF session # NoSession
       THEN /\ guardPc' = "csrf"
            /\ UNCHANGED message
       ELSE GuardThrow(SessionInvalid)
    /\ UNCHANGED <<req, session, statusCode, mutated, guarded>>
    /\ UNCHANGED <<migVars, pipeVars, bodyVars, clusterVars, cacheVars>>

\* req.headers.csrf === session.csrf
CsrfMatches(header, row) == header = row.csrf

\* assert(req.headers.csrf === session.csrf, '401: Invalid CSRF token, ...');  return session;
CheckCsrf ==
    /\ guardPc = "csrf"
    /\ IF CsrfMatches(req.csrf, session)
       THEN /\ guardPc' = "body"
            /\ UNCHANGED message
       ELSE GuardThrow(CsrfInvalid)
    /\ UNCHANGED <<req, session, statusCode, mutated, guarded>>
    /\ UNCHANGED <<migVars, pipeVars, bodyVars, clusterVars, cacheVars>>

\* logoutAll reads no body; logout parses it after the guard; the others
\* await the body that guardPostWithUserAndJson parsed meanwhile
ReadsBody(endpoint) == endpoint # "user.logoutAll"

\* {user: (await sessionP).user_id, json: await jsonP}   /   JSON.parse(await bodyAsString(req))
ParseBody ==
    /\ guardPc = "body"
    /\ IF ReadsBody(req.endpoint) /\ req.body = "garbage"
       THEN GuardThrow(JsonSyntax)
       ELSE /\ guardPc' = "mutate"
            /\ UNCHANGED message
    /\ UNCHANGED <<req, session, statusCode, mutated, guarded>>
    /\ UNCHANGED <<migVars, pipeVars, bodyVars, clusterVars, cacheVars>>

\* await DB.query('INSERT ...' / 'UPDATE ...' / 'DELETE ...'); then
\* assert(rows[0], '404: ...') and res.json(...)
Mutate ==
    /\ guardPc = "mutate"
    /\ mutated' = TRUE
    /\ \/ /\ statusCode' = 200
          /\ guardPc' = "done"
          /\ UNCHANGED message
       \/ /\ GuardThrow(NotFound)
          /\ UNCHANGED statusCode
    /\ UNCHANGED <<req, session, guarded>>
    /\ UNCHANGED <<migVars, pipeVars, bodyVars, clusterVars, cacheVars>>

\* catch({message}) { const status = ...; res.json({status, message}, status); }
Catch ==
    /\ guardPc = "catch"
    /\ statusCode' = StatusOf(message)
    /\ guardPc' = "done"
    /\ UNCHANGED <<req, session, message, mutated, guarded>>
    /\ UNCHANGED <<migVars, pipeVars, bodyVars, clusterVars, cacheVars>>

GuardNext ==
    \/ \E endpoint \in Endpoints, method \in Methods, sessionHeader \in SessionHeaders,
          csrfHeader \in CsrfHeaders, requestBody \in Bodies :
            Request(endpoint, method, sessionHeader, csrfHeader, requestBody)
    \/ CheckMethod
    \/ SessionGet
    \/ CheckSession
    \/ CheckCsrf
    \/ ParseBody
    \/ Mutate
    \/ Catch

\* the three checks of the request against the sessions table
ChecksPass ==
    /\ req.method = "POST"
    /\ \E s \in Sessions : s.id = req.session /\ s.csrf = req.csrf

(***************************************************************************)
(* C37  Mutation guard.  An endpoint behind guardPostWithSession issues    *)
(* its database mutation only if the method is POST, a session exists for  *)
(* the session id of the request and the csrf header equals the token of   *)
(* that session; a request that fails one of the three checks is answered  *)
(* with status 405 or 401 and without a mutation.                          *)
(***************************************************************************)
C37_MutationGuard ==
    /\ mutated => ChecksPass
    /\ (guardPc = "done" /\ ~ChecksPass)
          => /\ ~mutated
             /\ statusCode \in {405, 401}

\* the part of C37 that the code keeps: no mutation without the three
\* checks, and an error status for every request that fails one
MutationOnlyAfterChecks ==
    /\ mutated => ChecksPass
    /\ (guardPc = "done" /\ ~ChecksPass)
          => /\ ~mutated
             /\ statusCode \in {405, 401, 500}
             /\ statusCode = 500 => (req.method = "POST" /\ ~IsUuid(req.session))

(***************************************************************************)
(* C35  Single migrator, as stated: migrate is invoked by the master only, *)
(* and exactly once per cluster start, so that once the start-up code of   *)
(* the master has run there has been exactly one invocation.               *)
(***************************************************************************)
C35_ExactlyOnce ==
    /\ \A j \in 1 .. Len(invoked) : invoked[j] = "master"
    /\ Len(invoked) <= 1
    /\ master = "done" => Len(invoked) = 1

(***************************************************************************)
(* C35  Single migrator.  migrate is invoked by the master process only    *)
(* and at most once per cluster start: exactly once when the master's      *)
(* DB.connect() has succeeded, and not at all when it was rejected.  No    *)
(* worker, restarted ones included, invokes it, so a cluster never has two *)
(* migration runs at a time.                                               *)
(***************************************************************************)
C35_SingleMigrator ==
    /\ \A j \in 1 .. Len(invoked) : invoked[j] = "master"
    /\ Len(invoked) <= 1
    /\ Len(invoked) = 1 <=> migration # "none"
    /\ master = "migrating" => Len(invoked) = 1
    /\ Len(invoked) = 0
          => master \in {"off", "connecting"} \/ (master = "done" /\ migration = "none")

\* the migration has committed, workers have exited, and a worker forked by
\* the 'exit' handler is listening: migrate has been called once
C35_Witness ==
    /\ migration = "committed"
    /\ invoked = <<"master">>
    /\ Len(workers) > NumCPUs
    /\ \E w \in NumCPUs + 1 .. Len(workers) : workers[w] = "listening"
    /\ served > 0

vars == <<migVars, pipeVars, bodyVars, clusterVars, webVars>>

Init == InitMig /\ InitPipe /\ InitBody /\ InitCluster /\ InitCache /\ InitGuard

\* the migration runner
Next == MigNext

Spec == Init /\ [][Next]_vars

\* one DBPassThrough
PipeSpec == Init /\ [][PipeNext]_vars

\* one bodyAsBuffer
BodySpec == Init /\ [][BodyNext]_vars

\* one start of the cluster
ClusterSpec == Init /\ [][ClusterNext]_vars

\* the event loop of the master delivers every 'exit' event to the handler
ClusterLiveSpec == ClusterSpec /\ WF_vars(OnExit)

\* the cache of serveDirectory for one path
CacheSpec == Init /\ [][CacheNext]_vars

\* requests to the guarded endpoints
GuardSpec == Init /\ [][GuardNext]_vars

====
